---- MODULE Spec2Model ----
(***************************************************************************)
(* Model of frontend/src-tauri/src/lib.rs: the desktop shell's run()       *)
(* function.  run() builds the host application with the shell-services    *)
(* plugin, installs a setup hook and hands control to the host.  The setup *)
(* hook attaches the log plugin in development builds, and in release      *)
(* builds resolves and spawns the backend sidecar "binaries/backend".      *)
(*                                                                         *)
(* The program counter pc follows the lines of run().  The host framework, *)
(* the operating system and the child process are the environment: their   *)
(* answers (plugin accepted or rejected, sidecar resolved or not, spawn    *)
(* accepted or refused, the child dying, the shell being killed) are       *)
(* drawn nondeterministically where the code receives them.                *)
(***************************************************************************)
EXTENDS Naturals, Sequences, FiniteSets

VARIABLES
    buildMode,        \* "development" | "release": cfg(debug_assertions), fixed at compile time
    pc,               \* position of run() / of the host driving it
    shellPlugin,      \* "absent" | "registered" | "initialized": tauri_plugin_shell
    attachCalls,      \* number of app.handle().plugin(<log plugin>) calls
    attachResult,     \* "none" | "ok" | "err": result of the log plugin attach
    logSink,          \* TRUE once the log plugin is attached (a logger is installed)
    resolveAttempts,  \* number of shell.sidecar("binaries/backend") calls
    spawnAttempts,    \* number of sidecar.spawn() calls
    outcome,          \* "None" | "Started" | "ResolveFailed" | "SpawnFailed": match arm taken
    cause,            \* the error value e bound by an Err(e) arm, "none" otherwise
    child,            \* "Unspawned" | "Spawning" | "Running" | "Exited" | "Failed"
    handles,          \* "none" | "held" | "dropped": the (_rx, _child) pair
    log,              \* sequence of log events emitted by log::info! / log::error!
    setupResult,      \* "pending" | "ok" | "err": value returned by the setup closure
    windowPresented,  \* TRUE once the main window has been presented to the user
    loopEntered,      \* TRUE once the host event loop has started dispatching
    userEvents,       \* number of user events the event loop has dispatched
    uiRequests,       \* number of requests the UI has issued to the backend
    exit              \* "none" | "ok" | "panic" | "killed": how the shell process ended

vars == << buildMode, pc, shellPlugin, attachCalls, attachResult, logSink,
           resolveAttempts, spawnAttempts, outcome, cause, child, handles, log,
           setupResult, windowPresented, loopEntered, userEvents, uiRequests,
           exit >>

----------------------------------------------------------------------------
(* Bounds *)

MaxUserEvents == 2

MaxUiRequests == 2

----------------------------------------------------------------------------
(* Program text *)

StartedMsg == "Backend sidecar started successfully"

SpawnErrMsg == "Failed to start backend sidecar: {}"

SidecarErrMsg == "Failed to create sidecar command: {}"

DebugModeMsg == "Debug mode: backend should be started manually with 'uvicorn app.main:app --reload'"

\* Error values the host can hand to the Err(e) arms.
ResolveErrors == {"program not found", "bad sidecar path"}

SpawnErrors == {"permission denied", "exec format error"}

BuildModes == {"development", "release"}

\* cfg!(debug_assertions) / #[cfg(debug_assertions)]
DebugAssertionsOff == FALSE

DebugAssertions == buildMode = "development"

\* A log event: level, format string, formatted argument, and whether a
\* logger was installed when the macro ran.
LogEvent(level, msg, arg) ==
    [level |-> level, msg |-> msg, arg |-> arg, sink |-> logSink]

InfoEvents == {i \in 1..Len(log) : log[i].level = "info"}

ErrorEvents == {i \in 1..Len(log) : log[i].level = "error"}

Alive == pc # "terminated"

----------------------------------------------------------------------------
(* Initial state: the process has entered run(), nothing is built yet. *)

Init ==
    /\ buildMode \in BuildModes
    /\ pc = "builder"
    /\ shellPlugin = "absent"
    /\ attachCalls = 0
    /\ attachResult = "none"
    /\ logSink = FALSE
    /\ resolveAttempts = 0
    /\ spawnAttempts = 0
    /\ outcome = "None"
    /\ cause = "none"
    /\ child = "Unspawned"
    /\ handles = "none"
    /\ log = << >>
    /\ setupResult = "pending"
    /\ windowPresented = FALSE
    /\ loopEntered = FALSE
    /\ userEvents = 0
    /\ uiRequests = 0
    /\ exit = "none"

----------------------------------------------------------------------------
(* run(): building the application, lines 3-5 and 44-45 *)

\* Mutant: the shell plugin is not put on the builder.
PluginShellSkipped ==
    /\ pc = "builder"
    /\ pc' = "configured"
    /\ UNCHANGED << buildMode, shellPlugin, attachCalls, attachResult, logSink,
                    resolveAttempts, spawnAttempts, outcome, cause, child,
                    handles, log, setupResult, windowPresented, loopEntered,
                    userEvents, exit, uiRequests >>

\* tauri::Builder::default().plugin(tauri_plugin_shell::init()).setup(..)
PluginShell ==
    /\ pc = "builder"
    /\ shellPlugin' = "registered"
    /\ pc' = "configured"
    /\ UNCHANGED << buildMode, attachCalls, attachResult, logSink,
                    resolveAttempts, spawnAttempts, outcome, cause, child,
                    handles, log, setupResult, windowPresented, loopEntered,
                    userEvents, exit, uiRequests >>

\* .run(context): the host initializes the registered plugins and then calls
\* the setup hook on the main thread; a plugin that fails to initialize makes
\* run return Err before the hook is called.
Run ==
    /\ pc = "configured"
    /\ \E initOk \in BOOLEAN :
         IF initOk
         THEN /\ shellPlugin' = IF shellPlugin = "registered"
                                THEN "initialized" ELSE shellPlugin
              /\ pc' = "setup"
         ELSE /\ pc' = "run_err"
              /\ UNCHANGED shellPlugin
    /\ UNCHANGED << buildMode, attachCalls, attachResult, logSink,
                    resolveAttempts, spawnAttempts, outcome, cause, child,
                    handles, log, setupResult, windowPresented, loopEntered,
                    userEvents, exit, uiRequests >>

\* .expect("error while running tauri application") on an Err: panic.
Expect ==
    /\ pc = "run_err"
    /\ pc' = "terminated"
    /\ exit' = "panic"
    /\ handles' = IF handles = "held" THEN "dropped" ELSE handles
    /\ UNCHANGED << buildMode, shellPlugin, attachCalls, attachResult, logSink,
                    resolveAttempts, spawnAttempts, outcome, cause, child, log,
                    setupResult, windowPresented, loopEntered, userEvents, uiRequests >>

----------------------------------------------------------------------------
(* The setup closure, lines 6-42 *)

\* Mutant: the result of the attach is ignored (no `?`).
AttachLogPluginIgnoreErr ==
    /\ pc = "setup"
    /\ DebugAssertions
    /\ attachCalls' = attachCalls + 1
    /\ \E ok \in BOOLEAN :
         /\ attachResult' = IF ok THEN "ok" ELSE "err"
         /\ logSink' = ok
    /\ pc' = "gate"
    /\ UNCHANGED << buildMode, shellPlugin, resolveAttempts, spawnAttempts,
                    outcome, cause, child, handles, log, setupResult,
                    windowPresented, loopEntered, userEvents, exit, uiRequests >>

\* Mutant: the log plugin is attached whatever the build mode.
AttachLogPluginAnyMode ==
    /\ pc = "setup"
    /\ attachCalls' = attachCalls + 1
    /\ \E ok \in BOOLEAN :
         IF ok
         THEN /\ attachResult' = "ok"
              /\ logSink' = TRUE
              /\ pc' = "gate"
              /\ UNCHANGED setupResult
         ELSE /\ attachResult' = "err"
              /\ setupResult' = "err"
              /\ pc' = "run_err"
              /\ UNCHANGED logSink
    /\ UNCHANGED << buildMode, shellPlugin, resolveAttempts, spawnAttempts,
                    outcome, cause, child, handles, log, windowPresented,
                    loopEntered, userEvents, exit, uiRequests >>

\* if cfg!(debug_assertions) { app.handle().plugin(<log plugin, Info>)?; }
\* The host accepts or rejects the plugin atomically; `?` returns the error
\* from the closure.
AttachLogPlugin ==
    /\ pc = "setup"
    /\ DebugAssertions
    /\ attachCalls' = attachCalls + 1
    /\ \E ok \in BOOLEAN :
         IF ok
         THEN /\ attachResult' = "ok"
              /\ logSink' = TRUE
              /\ pc' = "gate"
              /\ UNCHANGED setupResult
         ELSE /\ attachResult' = "err"
              /\ setupResult' = "err"
              /\ pc' = "run_err"
              /\ UNCHANGED logSink
    /\ UNCHANGED << buildMode, shellPlugin, resolveAttempts, spawnAttempts,
                    outcome, cause, child, handles, log, windowPresented,
                    loopEntered, userEvents, exit, uiRequests >>

\* Mutant: the release build attaches the log plugin too.
SkipLogPluginAttaches ==
    /\ pc = "setup"
    /\ ~DebugAssertions
    /\ attachCalls' = attachCalls + 1
    /\ attachResult' = "ok"
    /\ logSink' = TRUE
    /\ pc' = "gate"
    /\ UNCHANGED << buildMode, shellPlugin, resolveAttempts, spawnAttempts,
                    outcome, cause, child, handles, log, setupResult,
                    windowPresented, loopEntered, userEvents, uiRequests,
                    exit >>

\* cfg!(debug_assertions) is false: the if body is skipped.
SkipLogPlugin ==
    /\ pc = "setup"
    /\ ~DebugAssertions
    /\ pc' = "gate"
    /\ UNCHANGED << buildMode, shellPlugin, attachCalls, attachResult, logSink,
                    resolveAttempts, spawnAttempts, outcome, cause, child,
                    handles, log, setupResult, windowPresented, loopEntered,
                    userEvents, exit, uiRequests >>

\* #[cfg(not(debug_assertions))] { let shell = app.shell(); ...
\* The supervisor starts: the child is about to be resolved and spawned.
AppShell ==
    /\ pc = "gate"
    /\ ~DebugAssertions
    /\ child' = "Spawning"
    /\ pc' = "sidecar"
    /\ UNCHANGED << buildMode, shellPlugin, attachCalls, attachResult, logSink,
                    resolveAttempts, spawnAttempts, outcome, cause, handles,
                    log, setupResult, windowPresented, loopEntered, userEvents,
                    exit, uiRequests >>

\* Mutant: a resolve error is propagated out of the closure.
SidecarPropagateErr ==
    /\ pc = "sidecar"
    /\ resolveAttempts' = resolveAttempts + 1
    /\ \/ /\ pc' = "spawn"
          /\ UNCHANGED << outcome, cause, child, setupResult >>
       \/ \E e \in ResolveErrors :
            /\ outcome' = "ResolveFailed"
            /\ cause' = e
            /\ child' = "Failed"
            /\ setupResult' = "err"
            /\ pc' = "run_err"
    /\ UNCHANGED << buildMode, shellPlugin, attachCalls, attachResult, logSink,
                    spawnAttempts, handles, log, windowPresented, loopEntered,
                    userEvents, exit, uiRequests >>

\* match shell.sidecar("binaries/backend") { Ok(sidecar) => .., Err(e) => .. }
Sidecar ==
    /\ pc = "sidecar"
    /\ resolveAttempts' = resolveAttempts + 1
    /\ \/ /\ pc' = "spawn"
          /\ UNCHANGED << outcome, cause, child >>
       \/ \E e \in ResolveErrors :
            /\ outcome' = "ResolveFailed"
            /\ cause' = e
            /\ child' = "Failed"
            /\ pc' = "log_sidecar_err"
    /\ UNCHANGED << buildMode, shellPlugin, attachCalls, attachResult, logSink,
                    spawnAttempts, handles, log, setupResult, windowPresented,
                    loopEntered, userEvents, exit, uiRequests >>

\* Mutant: a refused spawn leaves the half-created child process behind.
SpawnErrLeavesChild ==
    /\ pc = "spawn"
    /\ spawnAttempts' = spawnAttempts + 1
    /\ \/ /\ outcome' = "Started"
          /\ child' = "Running"
          /\ handles' = "held"
          /\ pc' = "log_started"
          /\ UNCHANGED cause
       \/ \E e \in SpawnErrors :
            /\ outcome' = "SpawnFailed"
            /\ cause' = e
            /\ child' = "Running"
            /\ pc' = "log_spawn_err"
            /\ UNCHANGED handles
    /\ UNCHANGED << buildMode, shellPlugin, attachCalls, attachResult, logSink,
                    resolveAttempts, log, setupResult, windowPresented,
                    loopEntered, userEvents, uiRequests, exit >>

\* Mutant: a refused spawn is tried again.
SpawnRetry ==
    /\ pc = "spawn"
    /\ spawnAttempts < 3
    /\ spawnAttempts' = spawnAttempts + 1
    /\ \/ /\ outcome' = "Started"
          /\ child' = "Running"
          /\ handles' = "held"
          /\ pc' = "log_started"
          /\ UNCHANGED cause
       \/ \E e \in SpawnErrors :
            /\ cause' = e
            /\ pc' = "spawn"
            /\ UNCHANGED << outcome, child, handles >>
    /\ UNCHANGED << buildMode, shellPlugin, attachCalls, attachResult, logSink,
                    resolveAttempts, log, setupResult, windowPresented,
                    loopEntered, userEvents, exit, uiRequests >>

\* match sidecar.spawn() { Ok((_rx, _child)) => .., Err(e) => .. }
\* The call returns as soon as the OS has created the process or refused to.
Spawn ==
    /\ pc = "spawn"
    /\ spawnAttempts' = spawnAttempts + 1
    /\ \/ /\ outcome' = "Started"
          /\ child' = "Running"
          /\ handles' = "held"
          /\ pc' = "log_started"
          /\ UNCHANGED cause
       \/ \E e \in SpawnErrors :
            /\ outcome' = "SpawnFailed"
            /\ cause' = e
            /\ child' = "Failed"
            /\ pc' = "log_spawn_err"
            /\ UNCHANGED handles
    /\ UNCHANGED << buildMode, shellPlugin, attachCalls, attachResult, logSink,
                    resolveAttempts, log, setupResult, windowPresented,
                    loopEntered, userEvents, exit, uiRequests >>

\* log::info!("Backend sidecar started successfully");
LogInfoStarted ==
    /\ pc = "log_started"
    /\ log' = Append(log, LogEvent("info", StartedMsg, "none"))
    /\ pc' = "arm_end"
    /\ UNCHANGED << buildMode, shellPlugin, attachCalls, attachResult, logSink,
                    resolveAttempts, spawnAttempts, outcome, cause, child,
                    handles, setupResult, windowPresented, loopEntered,
                    userEvents, exit, uiRequests >>

\* End of the Ok((_rx, _child)) arm: both bindings go out of scope and are
\* dropped.  Dropping them sends no signal to the child.
DropHandles ==
    /\ pc = "arm_end"
    /\ handles' = "dropped"
    /\ pc' = "ret"
    /\ UNCHANGED << buildMode, shellPlugin, attachCalls, attachResult, logSink,
                    resolveAttempts, spawnAttempts, outcome, cause, child, log,
                    setupResult, windowPresented, loopEntered, userEvents,
                    exit, uiRequests >>

\* Mutant: the spawn failure is reported at info level.
LogErrorSpawnAsInfo ==
    /\ pc = "log_spawn_err"
    /\ log' = Append(log, LogEvent("info", SpawnErrMsg, cause))
    /\ pc' = "ret"
    /\ UNCHANGED << buildMode, shellPlugin, attachCalls, attachResult, logSink,
                    resolveAttempts, spawnAttempts, outcome, cause, child,
                    handles, setupResult, windowPresented, loopEntered,
                    userEvents, exit, uiRequests >>

\* log::error!("Failed to start backend sidecar: {}", e);
LogErrorSpawn ==
    /\ pc = "log_spawn_err"
    /\ log' = Append(log, LogEvent("error", SpawnErrMsg, cause))
    /\ pc' = "ret"
    /\ UNCHANGED << buildMode, shellPlugin, attachCalls, attachResult, logSink,
                    resolveAttempts, spawnAttempts, outcome, cause, child,
                    handles, setupResult, windowPresented, loopEntered,
                    userEvents, exit, uiRequests >>

\* Mutant: after reporting the resolve failure the code goes on to spawn.
LogErrorSidecarThenSpawn ==
    /\ pc = "log_sidecar_err"
    /\ log' = Append(log, LogEvent("error", SidecarErrMsg, cause))
    /\ pc' = "spawn"
    /\ UNCHANGED << buildMode, shellPlugin, attachCalls, attachResult, logSink,
                    resolveAttempts, spawnAttempts, outcome, cause, child,
                    handles, setupResult, windowPresented, loopEntered,
                    userEvents, uiRequests, exit >>

\* log::error!("Failed to create sidecar command: {}", e);
LogErrorSidecar ==
    /\ pc = "log_sidecar_err"
    /\ log' = Append(log, LogEvent("error", SidecarErrMsg, cause))
    /\ pc' = "ret"
    /\ UNCHANGED << buildMode, shellPlugin, attachCalls, attachResult, logSink,
                    resolveAttempts, spawnAttempts, outcome, cause, child,
                    handles, setupResult, windowPresented, loopEntered,
                    userEvents, exit, uiRequests >>

\* Mutant: the manual-start notice is written twice.
LogInfoDebugModeTwice ==
    /\ pc = "gate"
    /\ DebugAssertions
    /\ log' = log \o << LogEvent("info", DebugModeMsg, "none"),
                        LogEvent("info", DebugModeMsg, "none") >>
    /\ pc' = "ret"
    /\ UNCHANGED << buildMode, shellPlugin, attachCalls, attachResult, logSink,
                    resolveAttempts, spawnAttempts, outcome, cause, child,
                    handles, setupResult, windowPresented, loopEntered,
                    userEvents, exit, uiRequests >>

\* #[cfg(debug_assertions)] { log::info!("Debug mode: ..."); }
LogInfoDebugMode ==
    /\ pc = "gate"
    /\ DebugAssertions
    /\ log' = Append(log, LogEvent("info", DebugModeMsg, "none"))
    /\ pc' = "ret"
    /\ UNCHANGED << buildMode, shellPlugin, attachCalls, attachResult, logSink,
                    resolveAttempts, spawnAttempts, outcome, cause, child,
                    handles, setupResult, windowPresented, loopEntered,
                    userEvents, exit, uiRequests >>

\* Ok(()) : the closure returns success and the host goes on to its event loop.
SetupOk ==
    /\ pc = "ret"
    /\ setupResult' = "ok"
    /\ pc' = "event_loop"
    /\ UNCHANGED << buildMode, shellPlugin, attachCalls, attachResult, logSink,
                    resolveAttempts, spawnAttempts, outcome, cause, child,
                    handles, log, windowPresented, loopEntered, userEvents,
                    exit, uiRequests >>

----------------------------------------------------------------------------
(* The host event loop, entered by .run(..) once the setup hook returned Ok *)

\* Mutant: the host shows the window while the setup hook is still running.
PresentWindowEarly ==
    /\ pc \in {"setup", "gate", "sidecar", "spawn", "event_loop"}
    /\ ~windowPresented
    /\ windowPresented' = TRUE
    /\ loopEntered' = TRUE
    /\ UNCHANGED << buildMode, pc, shellPlugin, attachCalls, attachResult,
                    logSink, resolveAttempts, spawnAttempts, outcome, cause,
                    child, handles, log, setupResult, userEvents, exit, uiRequests >>

\* The event loop starts and the main window gets its first frame.
PresentWindow ==
    /\ pc = "event_loop"
    /\ ~windowPresented
    /\ windowPresented' = TRUE
    /\ loopEntered' = TRUE
    /\ UNCHANGED << buildMode, pc, shellPlugin, attachCalls, attachResult,
                    logSink, resolveAttempts, spawnAttempts, outcome, cause,
                    child, handles, log, setupResult, userEvents, exit, uiRequests >>

\* The event loop dispatches one user event to the window.
DispatchUserEvent ==
    /\ pc = "event_loop"
    /\ windowPresented
    /\ userEvents < MaxUserEvents
    /\ userEvents' = userEvents + 1
    /\ UNCHANGED << buildMode, pc, shellPlugin, attachCalls, attachResult,
                    logSink, resolveAttempts, spawnAttempts, outcome, cause,
                    child, handles, log, setupResult, windowPresented,
                    loopEntered, exit, uiRequests >>

\* The UI loaded in the presented window issues a request to the backend's
\* network interface.  The shell does not gate it on the backend's state.
UiRequest ==
    /\ windowPresented
    /\ pc \notin {"exiting", "run_err", "terminated"}
    /\ uiRequests < MaxUiRequests
    /\ uiRequests' = uiRequests + 1
    /\ UNCHANGED << buildMode, pc, shellPlugin, attachCalls, attachResult,
                    logSink, resolveAttempts, spawnAttempts, outcome, cause,
                    child, handles, log, setupResult, windowPresented,
                    loopEntered, userEvents, exit >>

\* The user closes the main window: the host leaves the event loop.
ExitRequested ==
    /\ pc = "event_loop"
    /\ windowPresented
    /\ pc' = "exiting"
    /\ UNCHANGED << buildMode, shellPlugin, attachCalls, attachResult, logSink,
                    resolveAttempts, spawnAttempts, outcome, cause, child,
                    handles, log, setupResult, windowPresented, loopEntered,
                    userEvents, exit, uiRequests >>

\* The host tears down its plugins and the process exits.  run() keeps no
\* handle and installs no exit hook, so whether the child is stopped here is
\* up to the host: both outcomes are possible.
HostExit ==
    /\ pc = "exiting"
    /\ \E reaped \in BOOLEAN :
         child' = IF reaped /\ child = "Running" THEN "Exited" ELSE child
    /\ pc' = "terminated"
    /\ exit' = "ok"
    /\ UNCHANGED << buildMode, shellPlugin, attachCalls, attachResult, logSink,
                    resolveAttempts, spawnAttempts, outcome, cause, handles,
                    log, setupResult, windowPresented, loopEntered, userEvents, uiRequests >>

----------------------------------------------------------------------------
(* The environment *)

\* The shell process is force-killed: no code of the shell runs any more.
ForceKill ==
    /\ Alive
    /\ pc' = "terminated"
    /\ exit' = "killed"
    /\ handles' = IF handles = "held" THEN "dropped" ELSE handles
    /\ UNCHANGED << buildMode, shellPlugin, attachCalls, attachResult, logSink,
                    resolveAttempts, spawnAttempts, outcome, cause, child, log,
                    setupResult, windowPresented, loopEntered, userEvents, uiRequests >>

\* Mutant: a child that has exited is started again.
ChildExitsRestarted ==
    /\ \/ /\ child = "Running"
          /\ child' = "Exited"
          /\ UNCHANGED spawnAttempts
       \/ /\ child = "Exited"
          /\ Alive
          /\ spawnAttempts < 2
          /\ child' = "Running"
          /\ spawnAttempts' = spawnAttempts + 1
    /\ UNCHANGED << buildMode, pc, shellPlugin, attachCalls, attachResult,
                    logSink, resolveAttempts, outcome, cause, handles, log,
                    setupResult, windowPresented, loopEntered, userEvents,
                    uiRequests, exit >>

\* The child process exits on its own.  run() holds nothing that observes it.
ChildExits ==
    /\ child = "Running"
    /\ child' = "Exited"
    /\ UNCHANGED << buildMode, pc, shellPlugin, attachCalls, attachResult,
                    logSink, resolveAttempts, spawnAttempts, outcome, cause,
                    handles, log, setupResult, windowPresented, loopEntered,
                    userEvents, exit, uiRequests >>

----------------------------------------------------------------------------

Next ==
    \/ PluginShell
    \/ Run
    \/ Expect
    \/ AttachLogPlugin
    \/ SkipLogPlugin
    \/ AppShell
    \/ Sidecar
    \/ Spawn
    \/ LogInfoStarted
    \/ DropHandles
    \/ LogErrorSpawn
    \/ LogErrorSidecar
    \/ LogInfoDebugMode
    \/ SetupOk
    \/ PresentWindow
    \/ DispatchUserEvent
    \/ UiRequest
    \/ ExitRequested
    \/ HostExit
    \/ ForceKill
    \/ ChildExits

Spec == Init /\ [][Next]_vars

\* The main thread runs run() and the host's event loop to completion unless
\* the process is killed: every step of the program and of the host is taken
\* if it stays enabled.  User input, the child's death and a kill are not fair.
ProgramStep ==
    \/ PluginShell
    \/ Run
    \/ Expect
    \/ AttachLogPlugin
    \/ SkipLogPlugin
    \/ AppShell
    \/ Sidecar
    \/ Spawn
    \/ LogInfoStarted
    \/ DropHandles
    \/ LogErrorSpawn
    \/ LogErrorSidecar
    \/ LogInfoDebugMode
    \/ SetupOk
    \/ PresentWindow
    \/ HostExit

FairSpec == Spec /\ WF_vars(ProgramStep)

----------------------------------------------------------------------------

TypeOK ==
    /\ buildMode \in BuildModes
    /\ pc \in {"builder", "configured", "setup", "gate", "sidecar", "spawn",
               "log_started", "arm_end", "log_spawn_err", "log_sidecar_err",
               "ret", "event_loop", "exiting", "run_err", "terminated"}
    /\ shellPlugin \in {"absent", "registered", "initialized"}
    /\ attachCalls \in 0..1
    /\ attachResult \in {"none", "ok", "err"}
    /\ logSink \in BOOLEAN
    /\ resolveAttempts \in 0..1
    /\ spawnAttempts \in 0..1
    /\ outcome \in {"None", "Started", "ResolveFailed", "SpawnFailed"}
    /\ cause \in {"none"} \cup ResolveErrors \cup SpawnErrors
    /\ child \in {"Unspawned", "Spawning", "Running", "Exited", "Failed"}
    /\ handles \in {"none", "held", "dropped"}
    /\ Len(log) <= 1
    /\ setupResult \in {"pending", "ok", "err"}
    /\ windowPresented \in BOOLEAN
    /\ loopEntered \in BOOLEAN
    /\ userEvents \in 0..MaxUserEvents
    /\ uiRequests \in 0..MaxUiRequests
    /\ exit \in {"none", "ok", "panic", "killed"}

----------------------------------------------------------------------------
(* Properties *)

Release == buildMode = "release"

Development == buildMode = "development"

ShellTerminated == pc = "terminated"

\* C1 (bounded child lifetime): no reachable state has the shell process
\* terminated, by a normal exit or by a kill, while the child it spawned is
\* still running.
C1_BoundedChildLifetime == ~(ShellTerminated /\ child = "Running")

\* C2 (single spawn): over a whole shell lifetime, in either build mode and
\* on every path, sidecar.spawn() is called at most once.
C2_SingleSpawn == spawnAttempts <= 1

C2_Witness == spawnAttempts = 1 /\ ShellTerminated /\ exit = "ok"

SidecarFailed == Release /\ outcome \in {"ResolveFailed", "SpawnFailed"}

\* C3 (non-fatality of sidecar failure): in a release build, once the resolve
\* or the spawn has failed, setup never returns an error and run() never
\* panics, and the shell goes on to the event loop and presents the main
\* window (unless the process is killed first).
C3_NonFatalSidecarFailure ==
    /\ [](SidecarFailed =>
            /\ setupResult # "err"
            /\ pc # "run_err"
            /\ exit # "panic")
    /\ (SidecarFailed ~> (windowPresented \/ exit = "killed"))

C3_Witness ==
    /\ Release
    /\ outcome = "SpawnFailed"
    /\ setupResult = "ok"
    /\ loopEntered
    /\ windowPresented

SpawnAttemptCompleted ==
    IF Release
    THEN child \in {"Running", "Failed", "Exited"} /\ Len(log) = 1
    ELSE \E i \in 1..Len(log) : log[i].msg = DebugModeMsg

\* C4 (ordered startup): whenever the main window has been presented or the
\* event loop has dispatched a user event, the spawn attempt has completed:
\* in release the child has left Unspawned/Spawning and the outcome is
\* logged, in development the manual-start notice has been emitted.
C4_OrderedStartup ==
    (windowPresented \/ loopEntered \/ userEvents > 0) => SpawnAttemptCompleted

C4_Witness ==
    /\ Release
    /\ windowPresented
    /\ userEvents > 0
    /\ child = "Running"

SetupReturned == setupResult = "ok"

\* C5 as stated: every release execution attempts to resolve and to spawn
\* the sidecar during setup; no development execution attempts a spawn.
C5_AsStated ==
    /\ (Release /\ SetupReturned => resolveAttempts = 1 /\ spawnAttempts = 1)
    /\ (Development => spawnAttempts = 0)

\* C5 (build-mode partitioning), amended: every release execution whose
\* setup returns has attempted the resolve, and has attempted the spawn
\* exactly when the resolve succeeded; no development execution attempts a
\* resolve or a spawn.
C5_BuildModePartitioning ==
    /\ (Release /\ SetupReturned =>
            /\ resolveAttempts = 1
            /\ spawnAttempts = (IF outcome = "ResolveFailed" THEN 0 ELSE 1))
    /\ (Development => resolveAttempts = 0 /\ spawnAttempts = 0)

C5_Witness ==
    /\ Release
    /\ SetupReturned
    /\ outcome = "ResolveFailed"
    /\ resolveAttempts = 1
    /\ spawnAttempts = 0

SuperviseReturned == Release /\ (pc = "ret" \/ SetupReturned)

\* C6 (log emission): when supervise has returned, the log holds exactly one
\* event: for Started one info event with the success text and no error
\* event; for ResolveFailed and SpawnFailed one error event with the text of
\* that failure kind and its cause, and no info event.  Nothing is logged
\* before an outcome is known.
C6_LogEmission ==
    /\ (Release /\ outcome = "None" => log = << >>)
    /\ (SuperviseReturned =>
            /\ Len(log) = 1
            /\ outcome # "None"
            /\ (outcome = "Started" =>
                    /\ log[1].level = "info"
                    /\ log[1].msg = StartedMsg
                    /\ ErrorEvents = {})
            /\ (outcome = "ResolveFailed" =>
                    /\ log[1].level = "error"
                    /\ log[1].msg = SidecarErrMsg
                    /\ log[1].arg = cause
                    /\ cause \in ResolveErrors
                    /\ InfoEvents = {})
            /\ (outcome = "SpawnFailed" =>
                    /\ log[1].level = "error"
                    /\ log[1].msg = SpawnErrMsg
                    /\ log[1].arg = cause
                    /\ cause \in SpawnErrors
                    /\ InfoEvents = {}))

C6_Witness ==
    /\ SuperviseReturned
    /\ outcome = "SpawnFailed"
    /\ Len(log) = 1
    /\ log[1].level = "error"

AttachFailed == Development /\ attachResult = "err"

\* C7 (fatal plugin registration failure): once the log plugin attach has
\* failed in a development build, setup has failed with that error, no log
\* event is emitted, no window is presented, the event loop is never
\* entered, and the process ends with a failure status.
C7_FatalAttachFailure ==
    /\ [](AttachFailed =>
            /\ setupResult = "err"
            /\ log = << >>
            /\ ~windowPresented
            /\ ~loopEntered
            /\ userEvents = 0
            /\ pc \in {"run_err", "terminated"}
            /\ exit # "ok")
    /\ (AttachFailed ~> exit \in {"panic", "killed"})

C7_Witness == AttachFailed /\ ShellTerminated /\ exit = "panic"

DevPathTaken == Development /\ (pc = "ret" \/ SetupReturned)

\* C8 (development path): a development build never resolves or spawns and
\* never emits an error event; once the attach has succeeded and setup has
\* passed the notice, the log holds exactly one info event, the manual-start
\* notice; setup then returns Ok and the shell goes on to the event loop and
\* presents the main window (unless the process is killed first).
C8_DevelopmentPath ==
    /\ [](Development =>
            /\ resolveAttempts = 0
            /\ spawnAttempts = 0
            /\ child = "Unspawned"
            /\ ErrorEvents = {}
            /\ (DevPathTaken =>
                    /\ Len(log) = 1
                    /\ log[1].level = "info"
                    /\ log[1].msg = DebugModeMsg))
    /\ ((Development /\ attachResult = "ok") ~>
            (windowPresented \/ exit = "killed"))

C8_Witness ==
    /\ DevPathTaken
    /\ Len(log) = 1
    /\ loopEntered
    /\ windowPresented

\* C9 as stated: the log sink is attached at most once, only in development
\* builds, and no log event is emitted while the sink is unattached.
C9_AsStated ==
    /\ attachCalls <= 1
    /\ (attachCalls > 0 => Development)
    /\ \A i \in 1..Len(log) : log[i].sink

\* C9 (log sink attach), amended: the log sink is attached at most once,
\* only in development builds, and in a development build no log event is
\* emitted while the sink is unattached.
C9_LogSinkAttach ==
    /\ attachCalls <= 1
    /\ (attachCalls > 0 => Development)
    /\ (logSink => attachResult = "ok")
    /\ (Development => \A i \in 1..Len(log) : log[i].sink)

C9_Witness ==
    /\ Development
    /\ attachCalls = 1
    /\ Len(log) = 1
    /\ log[1].sink

\* C10 (shell-services plugin): in both build modes the shell plugin is on
\* the builder from the first step of run() on, and it is initialized before
\* the supervisor starts, resolves or spawns.
C10_ShellPluginFirst ==
    /\ (pc \notin {"builder", "terminated"} => shellPlugin # "absent")
    /\ (resolveAttempts > 0 \/ spawnAttempts > 0 \/ child # "Unspawned"
            => shellPlugin = "initialized")
    /\ (attachCalls > 0 \/ Len(log) > 0 => shellPlugin = "initialized")

C10_Witness ==
    /\ Release
    /\ shellPlugin = "initialized"
    /\ resolveAttempts = 1
    /\ spawnAttempts = 1

SidecarSpawned == outcome = "Started" /\ child \in {"Running", "Exited"}

\* C11 as stated: in a release build, whenever the UI has issued a request
\* to the backend, the sidecar has been spawned.
C11_AsStated == (Release /\ uiRequests > 0) => SidecarSpawned

\* C11 (backend before first UI request), amended: in a release build,
\* whenever the UI has issued a request, the spawn attempt has completed and
\* its outcome is logged; if the attempt succeeded, the sidecar process was
\* created before the request (it may not be serving yet, or may have exited
\* again); if the resolve or the spawn failed, the UI issues its requests
\* with no sidecar spawned.
C11_BackendBeforeUi ==
    (Release /\ uiRequests > 0) =>
        /\ outcome # "None"
        /\ Len(log) = 1
        /\ (outcome = "Started" => SidecarSpawned /\ spawnAttempts = 1)
        /\ (outcome \in {"ResolveFailed", "SpawnFailed"} => child = "Failed")

C11_Witness ==
    /\ Release
    /\ uiRequests > 0
    /\ outcome = "Started"
    /\ child = "Running"

\* C12 (no partial state on failure): once the resolve or the spawn has
\* failed, in every later state of the shell's lifetime there is no child
\* process (the child is Failed, never Running or Exited) and no handle
\* pair, and setup is not blocked: it returns Ok unless the process is
\* killed first.
C12_NoPartialState ==
    /\ [](SidecarFailed => child = "Failed" /\ handles = "none")
    /\ (SidecarFailed ~> (SetupReturned \/ exit = "killed"))

C12_Witness ==
    /\ Release
    /\ outcome = "ResolveFailed"
    /\ SetupReturned
    /\ child = "Failed"
    /\ ShellTerminated
    /\ exit = "ok"

\* While the host is leaving the event loop (pc = "exiting") the host has not
\* yet torn anything down: a child found Exited there exited on its own.
SpontaneousExitSeen == outcome = "Started" /\ child = "Exited" /\ pc = "exiting"

\* C13 (spontaneous child exit): when the child has exited on its own while
\* Running, by the time the shell leaves its event loop the log holds exactly
\* one error-level event for that exit, and the child is never spawned again.
C13_SpontaneousChildExit ==
    /\ (SpontaneousExitSeen => Cardinality(ErrorEvents) = 1)
    /\ spawnAttempts <= 1

\* The transitions of the child's observed state the table allows, each with
\* what must cause it.
ChildStep ==
    \/ child = "Unspawned" /\ child' = "Spawning"
    \/ /\ child = "Spawning" /\ child' = "Running"
       /\ spawnAttempts' = spawnAttempts + 1
       /\ outcome' = "Started"
    \/ /\ child = "Spawning" /\ child' = "Failed"
       /\ outcome' \in {"ResolveFailed", "SpawnFailed"}
       /\ cause' \in ResolveErrors \cup SpawnErrors
    \/ child = "Running" /\ child' = "Exited"

\* C15 (child state machine): every change of the child's observed state is
\* Unspawned -> Spawning, Spawning -> Running (by a successful spawn),
\* Spawning -> Failed (by a rejected resolve or spawn) or Running -> Exited;
\* nothing leaves Exited or Failed.
C15_ChildStateMachine == [][child' # child => ChildStep]_vars

C15_Witness ==
    /\ child = "Exited"
    /\ outcome = "Started"
    /\ Alive
    /\ windowPresented

\* C16 (handle ownership): after a successful spawn the handle pair is held
\* by the shell in every state in which the shell process is still running.
C16_HandleOwnership == (outcome = "Started" /\ Alive) => handles = "held"

\* C17 (resolve before spawn): a spawn is attempted only after the one
\* resolve has succeeded; once the resolve has failed no spawn is ever
\* attempted and the log holds nothing but the resolve-failure error event
\* (exactly that event once the arm has run).
C17_ResolveBeforeSpawn ==
    /\ (spawnAttempts > 0 =>
            /\ resolveAttempts = 1
            /\ outcome \in {"Started", "SpawnFailed"}
            /\ cause \notin ResolveErrors
            /\ \A i \in 1..Len(log) : log[i].msg # SidecarErrMsg)
    /\ (outcome = "ResolveFailed" =>
            /\ spawnAttempts = 0
            /\ Len(log) <= 1
            /\ \A i \in 1..Len(log) :
                   /\ log[i].level = "error"
                   /\ log[i].msg = SidecarErrMsg
                   /\ log[i].arg = cause
            /\ (SuperviseReturned => Len(log) = 1))

C17_Witness ==
    /\ outcome = "ResolveFailed"
    /\ SuperviseReturned
    /\ spawnAttempts = 0
    /\ Len(log) = 1
    /\ ShellTerminated

\* C18 (no sink in release): in a release build the log plugin is never
\* attached and no logger is ever installed, so every log event of the
\* sidecar path is emitted while no sink is attached.
C18_ReleaseLogsUnattached ==
    Release =>
        /\ attachCalls = 0
        /\ attachResult = "none"
        /\ ~logSink
        /\ \A i \in 1..Len(log) : ~log[i].sink

C18_Witness ==
    /\ Release
    /\ outcome = "Started"
    /\ Len(log) = 1
    /\ ~log[1].sink
    /\ ShellTerminated

====
